---- MODULE Spec2Model ----
(***************************************************************************)
(* Model of src/lib/helpers/register-endpoint.ts: the endpoint             *)
(* registration handshake (registerEndpoint) and the parser of the         *)
(* Set-Registrationtoken header (readSetRegistrationTokenHeader).          *)
(*                                                                         *)
(* One invocation of registerEndpoint is a sequential process with one     *)
(* suspension point, `await io.post(req)`.  The model has one action for   *)
(* the synchronous prefix of the call (up to the first await) and one      *)
(* action per way the awaited promise settles; each of them runs the code  *)
(* up to the next suspension point or to the end of the call.              *)
(***************************************************************************)
EXTENDS Integers, Sequences, FiniteSets, TLC

\* ------------------------------------------------------------------------
\* Bounds of the model
\* ------------------------------------------------------------------------

\* Largest retry budget the caller passes.
MaxRetries == 2

\* Largest number of parameters of a header passed to the token parser.
MaxSegments == 3

\* Largest reading of the clock, in seconds.
MaxTime == 2

\* ------------------------------------------------------------------------
\* JavaScript values
\* ------------------------------------------------------------------------

\* `undefined`: an absent header, an absent map entry.
Undefined == "undefined"

\* `null`: the value url.parse leaves in the fields a URI does not define.
Null == "null"

\* Default value of the `retries` parameter.
DefaultRetries == 2

\* Hostnames of messages servers (the caller's argument and the hosts that
\* Location headers name).  "A" is "a" written in upper case.
Hostnames == {"a", "A", "b"}

\* String.prototype.toLowerCase on the hostnames of the model.
ToLowerCase(h) == IF h = "A" THEN "a" ELSE h

\* The path of the endpoints resource.
EndpointsPath == "/v1/users/ME/endpoints"

\* messagesUri.endpoints(host): the URI of the endpoints resource of a host.
\* A URI is the tuple <<scheme, host, path>>.
endpoints(host) == <<"https", host, EndpointsPath>>

\* Values of a Location header: absolute URIs <<scheme, host, path>> and a
\* relative reference <<path>>, which names no host.
LocationHeaders == {<<"https", h, EndpointsPath>> : h \in Hostnames} \cup {<<EndpointsPath>>}

\* url.parse(locationHeader): the `host` field is the lower-cased authority
\* of the URI, and null when the URI has none.
parseUri(locationHeader) ==
  [host |-> IF Len(locationHeader) = 3 THEN ToLowerCase(locationHeader[2]) ELSE Null]

\* ------------------------------------------------------------------------
\* Strings of header values.  A header value is the sequence of its
\* characters, so that splitting, trimming and number parsing are computed.
\* ------------------------------------------------------------------------

KeyRegistrationToken == <<"r", "e", "g", "i", "s", "t", "r", "a", "t", "i", "o", "n", "T", "o", "k", "e", "n">>

KeyExpires == <<"e", "x", "p", "i", "r", "e", "s">>

KeyEndpointId == <<"e", "n", "d", "p", "o", "i", "n", "t", "I", "d">>

\* Header "registrationToken=abc; expires=1000; endpointId={e1}".
HeaderComplete ==
  KeyRegistrationToken \o <<"=", "a", "b", "c", ";", " ">> \o KeyExpires \o <<"=", "1", "0", "0", "0", ";", " ">> \o KeyEndpointId \o <<"=", "{", "e", "1", "}">>

\* Header "registrationToken=abc; endpointId={e1}": no `expires` parameter.
HeaderNoExpires ==
  KeyRegistrationToken \o <<"=", "a", "b", "c", ";", " ">> \o KeyEndpointId \o <<"=", "{", "e", "1", "}">>

\* Header "registrationToken=; expires=1000; endpointId={e1}": the
\* registrationToken parameter has the empty string as its value.
HeaderEmptyValue ==
  KeyRegistrationToken \o <<"=", ";", " ">> \o KeyExpires \o <<"=", "1", "0", "0", "0", ";", " ">> \o KeyEndpointId \o <<"=", "{", "e", "1", "}">>

\* Values of a Set-Registrationtoken header.
RegistrationTokenHeaders == {HeaderComplete, HeaderNoExpires}

IsSpace(c) == c = " "

\* s.substring(from, to) with 1-based inclusive bounds; empty when from > to.
Substring(s, from, to) == IF from > to THEN <<>> ELSE SubSeq(s, from, to)

RECURSIVE TrimStart(_)
TrimStart(s) == IF s # <<>> /\ IsSpace(Head(s)) THEN TrimStart(Tail(s)) ELSE s

RECURSIVE TrimEnd(_)
TrimEnd(s) ==
  IF s # <<>> /\ IsSpace(s[Len(s)]) THEN TrimEnd(SubSeq(s, 1, Len(s) - 1)) ELSE s

\* String.prototype.trim
Trim(s) == TrimEnd(TrimStart(s))

\* s.indexOf(c), 1-based; 0 when c does not occur in s.
IndexOf(s, c) ==
  IF \E i \in 1..Len(s) : s[i] = c
    THEN CHOOSE i \in 1..Len(s) : s[i] = c /\ \A j \in 1..(i - 1) : s[j] # c
    ELSE 0

\* s.split(c): the segments of s between the occurrences of c.
RECURSIVE Split(_, _)
Split(s, c) ==
  LET i == IndexOf(s, c)
  IN IF i = 0 THEN <<s>>
     ELSE <<Substring(s, 1, i - 1)>> \o Split(Substring(s, i + 1, Len(s)), c)

\* map.set(key, val) on a map held as a function from its keys.
MapSet(map, key, val) ==
  [k \in (DOMAIN map) \cup {key} |-> IF k = key THEN val ELSE map[k]]

\* utils.parseHeaderParams(header): split on ";", trim each segment, split
\* each segment at its first "=", drop the segments that have none; a later
\* occurrence of a key overwrites an earlier one.
RECURSIVE SetParams(_, _)
SetParams(map, segments) ==
  IF segments = <<>> THEN map
  ELSE LET paramString == Trim(Head(segments))
           eqIdx == IndexOf(paramString, "=")
       IN IF eqIdx = 0 THEN SetParams(map, Tail(segments))
          ELSE SetParams(MapSet(map, Substring(paramString, 1, eqIdx - 1),
                                Substring(paramString, eqIdx + 1, Len(paramString))),
                         Tail(segments))

parseHeaderParams(header) ==
  IF header = <<>> THEN <<>> ELSE SetParams(<<>>, Split(header, ";"))

Digits == {"0", "1", "2", "3", "4", "5", "6", "7", "8", "9"}

DigitValue(c) ==
  CASE c = "0" -> 0 [] c = "1" -> 1 [] c = "2" -> 2 [] c = "3" -> 3 [] c = "4" -> 4
    [] c = "5" -> 5 [] c = "6" -> 6 [] c = "7" -> 7 [] c = "8" -> 8 [] c = "9" -> 9

\* The value of the longest prefix of digits of s, continuing from acc.
RECURSIVE DigitPrefix(_, _)
DigitPrefix(s, acc) ==
  IF s # <<>> /\ Head(s) \in Digits
    THEN DigitPrefix(Tail(s), 10 * acc + DigitValue(Head(s)))
    ELSE acc

\* parseInt(s, 10): leading white space is skipped, an optional sign is read,
\* then the longest prefix of digits; NaN when there is no digit.  A number
\* is [nan |-> FALSE, n |-> its value] and NaN is [nan |-> TRUE].
parseInt(str) ==
  LET s == TrimStart(str)
      signed == s # <<>> /\ Head(s) \in {"+", "-"}
      body == IF signed THEN Tail(s) ELSE s
  IN IF body = <<>> \/ Head(body) \notin Digits THEN [nan |-> TRUE]
     ELSE [nan |-> FALSE,
           n |-> IF signed /\ Head(s) = "-" THEN 0 - DigitPrefix(body, 0)
                 ELSE DigitPrefix(body, 0)]

\* new Date(1000 * expires): the instant in milliseconds since the epoch, an
\* invalid date when expires is NaN.
DateOfSeconds(expires) ==
  IF expires.nan THEN [valid |-> FALSE] ELSE [valid |-> TRUE, ms |-> 1000 * expires.n]

\* A test of absence that takes the empty string for an absent value.
IsMissingFalsy(parsedHeader, key) ==
  key \notin DOMAIN parsedHeader \/ parsedHeader[key] = <<>>

\* parsedHeader.get(key) === undefined
IsMissing(parsedHeader, key) == key \notin DOMAIN parsedHeader

\* readSetRegistrationTokenHeader(hostname, header): the token, or the
\* Incident it throws, as [ok |-> TRUE, token |-> _] or [ok |-> FALSE, error |-> _].
readSetRegistrationTokenHeader(hostname, header) ==
  LET parsedHeader == parseHeaderParams(header)
  IN IF \/ IsMissing(parsedHeader, KeyRegistrationToken)
        \/ IsMissing(parsedHeader, KeyExpires)
        \/ IsMissing(parsedHeader, KeyEndpointId)
       THEN [ok |-> FALSE,
             error |-> [name |-> "InvalidSetRegistrationTokenHeader",
                        data |-> [header |-> header, parsed |-> parsedHeader]]]
       ELSE [ok |-> TRUE,
             token |-> [value |-> parsedHeader[KeyRegistrationToken],
                        expirationDate |-> DateOfSeconds(parseInt(parsedHeader[KeyExpires])),
                        endpointId |-> parsedHeader[KeyEndpointId],
                        raw |-> header,
                        host |-> hostname]]

\* ------------------------------------------------------------------------
\* Request headers.  The words of the configuration (identifiers, names,
\* versions, the digest) are opaque: each is a string of one element.
\* ------------------------------------------------------------------------

\* String(n) for n >= 0: the decimal digits of n.
DigitChar(d) ==
  CASE d = 0 -> "0" [] d = 1 -> "1" [] d = 2 -> "2" [] d = 3 -> "3" [] d = 4 -> "4"
    [] d = 5 -> "5" [] d = 6 -> "6" [] d = 7 -> "7" [] d = 8 -> "8" [] d = 9 -> "9"

RECURSIVE NumberToString(_)
NumberToString(n) == IF n < 10 THEN <<DigitChar(n)>> ELSE NumberToString(n \div 10) \o <<DigitChar(n % 10)>>

\* utils.stringifyHeaderParams(params): the entries "key=value" of params,
\* a sequence of <<key, value>>, joined by "; " in their order.
RECURSIVE stringifyHeaderParams(_)
stringifyHeaderParams(params) ==
  IF params = <<>> THEN <<>>
  ELSE LET entry == params[1][1] \o <<"=">> \o params[1][2]
       IN IF Len(params) = 1 THEN entry
          ELSE entry \o <<";", " ">> \o stringifyHeaderParams(Tail(params))

\* Consts.SKYPEWEB_LOCKANDKEY_APPID
SKYPEWEB_LOCKANDKEY_APPID == <<"msmsgs@msnmsgr.com">>

\* Consts.SKYPEWEB_LOCKANDKEY_SECRET
SKYPEWEB_LOCKANDKEY_SECRET == <<"secret">>

\* Consts.SKYPEWEB_CLIENTINFO_NAME
SKYPEWEB_CLIENTINFO_NAME == <<"skype.com">>

\* Consts.SKYPEWEB_CLIENTINFO_VERSION
SKYPEWEB_CLIENTINFO_VERSION == <<"908/1.0">>

\* hmacSha256(input, appId, secret): the digest, a word determined by the
\* three buffers.
hmacSha256(input, appId, secret) == <<"hmac">> \o input \o appId \o secret

\* getLockAndKeyResponse(time)
getLockAndKeyResponse(time) ==
  hmacSha256(NumberToString(time), SKYPEWEB_LOCKANDKEY_APPID, SKYPEWEB_LOCKANDKEY_SECRET)

KeyTime == <<"t", "i", "m", "e">>

\* getLockAndKeyHeader(time)
getLockAndKeyHeader(time) ==
  stringifyHeaderParams(<< <<<<"appId">>, SKYPEWEB_LOCKANDKEY_APPID>>,
                           <<KeyTime, NumberToString(time)>>,
                           <<<<"lockAndKeyResponse">>, getLockAndKeyResponse(time)>> >>)

\* The constant CLIENT_INFO_HEADER.
CLIENT_INFO_HEADER ==
  stringifyHeaderParams(<< <<<<"os">>, <<"Windows">> >>,
                           <<<<"osVer">>, <<"10">> >>,
                           <<<<"proc">>, <<"Win64">> >>,
                           <<<<"lcid">>, <<"en-us">> >>,
                           <<<<"deviceType">>, <<"1">> >>,
                           <<<<"country">>, <<"n/a">> >>,
                           <<<<"clientName">>, SKYPEWEB_CLIENTINFO_NAME>>,
                           <<<<"clientVer">>, SKYPEWEB_CLIENTINFO_VERSION>> >>)

\* skypeToken.value, the token of the caller.
SkypeTokenValue == <<"skypetoken-value">>

\* JSON.stringify({endpointFeatures: "Agent"})
RequestBody == "{\"endpointFeatures\":\"Agent\"}"

\* The request options of lines 70-83 for a hostname, with the LockAndKey
\* header of a time.
RequestOptions(hostname, time) ==
  [uri |-> endpoints(hostname),
   headers |-> [LockAndKey |-> getLockAndKeyHeader(time),
                ClientInfo |-> CLIENT_INFO_HEADER,
                Authentication |-> stringifyHeaderParams(<< <<<<"skypetoken">>, SkypeTokenValue>> >>),
                BehaviorOverride |-> "redirectAs404"],
   cookies |-> "cookies",
   body |-> RequestBody]

\* ------------------------------------------------------------------------
\* HTTP responses
\* ------------------------------------------------------------------------

\* Status codes the server answers with.
StatusCodes == {200, 201, 301, 429}

\* res.headers: a function from the names of the headers the response
\* carries; reading a name outside its domain yields `undefined`.
HeaderMaps ==
  {<<>>}
    \cup {("location" :> l) : l \in LocationHeaders}
    \cup {("set-registrationtoken" :> t) : t \in RegistrationTokenHeaders}
    \cup {("location" :> l) @@ ("set-registrationtoken" :> t) :
            l \in LocationHeaders, t \in RegistrationTokenHeaders}

Responses == [statusCode : StatusCodes, headers : HeaderMaps]

\* res.headers[name] === undefined
HeaderIsUndefined(res, name) == name \notin DOMAIN res.headers

\* ------------------------------------------------------------------------
\* Errors
\* ------------------------------------------------------------------------

\* The composite error built without its cause.
EndpointRegistrationErrorWithoutCause(cause) ==
  [name |-> "EndpointRegistrationError", message |-> "Unable to register endpoint"]

\* new Incident(cause, "EndpointRegistrationError", "Unable to register endpoint")
EndpointRegistrationError(cause) ==
  [name |-> "EndpointRegistrationError", message |-> "Unable to register endpoint",
   cause |-> cause]

\* UnexpectedHttpStatusError.create(res, expected, req)
UnexpectedHttpStatusError(res, expected, request) ==
  [name |-> "UnexpectedHttpStatus",
   data |-> [response |-> res, expected |-> expected, request |-> request]]

\* MissingHeaderError.create(res, headerName, req)
MissingHeaderError(res, headerName, request) ==
  [name |-> "MissingHeader",
   data |-> [response |-> res, headerName |-> headerName, request |-> request]]

\* ------------------------------------------------------------------------
\* State of one invocation of registerEndpoint
\* ------------------------------------------------------------------------

VARIABLES
  pc,                \* "idle": not yet called; "await": suspended in io.post;
                     \* "returned": resolved with `result`; "thrown": rejected with `error`
  hostnameArg,       \* the messagesHostname argument as the caller passed it
  retries,           \* the retries argument
  messagesHostname,  \* the parameter messagesHostname, reassigned on a redirection
  tryCount,          \* the loop counter
  tries,             \* the array of {req, res}
  req,               \* the request of the current loop pass
  posted,            \* the requests passed to io.post so far, in order
  result,            \* the RegistrationToken the call resolved with
  error              \* the value the call rejected with

\* State of one call of readSetRegistrationTokenHeader on its own.
VARIABLES
  readPc,            \* "off": no such call; "called": arguments passed; "done": finished
  readHostname,      \* the hostname argument
  readHeader,        \* the header argument
  readOutcome        \* what the call returned or threw

\* The wall clock.
VARIABLE clock       \* seconds since the epoch

\* State of concurrent calls of registerEndpoint.
VARIABLES
  calls,             \* the locals of each concurrent call, a record per call
  served,            \* per call, the steps it has taken: its call and the
                     \* settlements of its io.post promises, in order
  cookieStore        \* the cookie store the calls pass to io.post

\* The variables of the call of registerEndpoint.
callVars ==
  <<pc, hostnameArg, retries, messagesHostname, tryCount, tries, req, posted, result, error>>

\* The variables of the call of readSetRegistrationTokenHeader on its own.
readVars == <<readPc, readHostname, readHeader, readOutcome>>

\* The variables of the concurrent calls.
concurrentVars == <<calls, served, cookieStore>>

\* The variables a step of registerEndpoint leaves alone.
aside == <<readVars, clock, concurrentVars>>

vars == <<callVars, aside>>

\* Value of `req`, `result` and `error` while they hold nothing.
None == [name |-> "none"]

\* The loop condition with strict inequality.
LoopConditionStrict(count, budget) == count < budget

\* The loop condition with a budget one too large.
LoopConditionOffByOne(count, budget) == count <= budget + 1

\* Condition of the for loop.
LoopCondition(count, budget) == count <= budget

\* The expected status codes with 200 accepted as well.
expectedStatusCodeWith200 == {200, 201, 301}

\* The expected status codes with 301 forgotten.
expectedStatusCodeOnly201 == {201}

\* The set of status codes of line 95.
expectedStatusCode == {201, 301}

\* The rate limit test with a wrong status code.
IsRateLimitedWrongCode(res) == res.statusCode = 428

\* res.statusCode === 429
IsRateLimited(res) == res.statusCode = 429

\* location.host === undefined
HostIsUndefined(location) == location.host = Undefined

\* The redirection test with the comparison inverted.
IsRedirectionInverted(location, hostname) == location.host = hostname

\* The redirection test always taken.
IsRedirectionAlways(location, hostname) == TRUE

\* location.host !== messagesHostname
IsRedirection(location, hostname) == location.host # hostname

\* A redirection that leaves messagesHostname as it was.
RedirectionHostnameStale(location) == messagesHostname

\* The hostname assigned to messagesHostname on a redirection.
RedirectionHostname(location) == location.host

\* utils.getCurrentTime()
getCurrentTime == clock

\* The request built with the time of the first request of the call.
BuildRequestTimeOfFirst(hostname) ==
  RequestOptions(hostname,
                 IF posted = <<>> THEN getCurrentTime
                 ELSE parseInt(parseHeaderParams(posted[1].headers.LockAndKey)[KeyTime]).n)

\* The request of a loop pass, built with the current time.
BuildRequest(hostname) == RequestOptions(hostname, getCurrentTime)

\* A throw that leaves the history as it was before the response.
ThrowWithoutPush(e, tries1) ==
  /\ pc' = "thrown"
  /\ error' = e
  /\ tries' = tries
  /\ UNCHANGED <<hostnameArg, retries, messagesHostname, tryCount, req, posted, result, aside>>

\* A throw out of registerEndpoint; tries1 is the history at the throw.
Throw(e, tries1) ==
  /\ pc' = "thrown"
  /\ error' = e
  /\ tries' = tries1
  /\ UNCHANGED <<hostnameArg, retries, messagesHostname, tryCount, req, posted, result, aside>>

Return(token, tries1) ==
  /\ pc' = "returned"
  /\ result' = token
  /\ tries' = tries1
  /\ UNCHANGED <<hostnameArg, retries, messagesHostname, tryCount, req, posted, error, aside>>

\* The code from the test of the loop condition to the next suspension
\* point: either the next request is built and posted, or the loop is left
\* and the redirection limit error is thrown.
LoopPass(count, hostname, tries1) ==
  IF LoopCondition(count, retries)
    THEN /\ pc' = "await"
         /\ req' = BuildRequest(hostname)
         /\ posted' = Append(posted, req')
         /\ messagesHostname' = hostname
         /\ tryCount' = count
         /\ tries' = tries1
         /\ UNCHANGED <<hostnameArg, retries, result, error, aside>>
    ELSE /\ pc' = "thrown"
         /\ error' = EndpointRegistrationError(
                       [name |-> "EndpointRedirectionsLimit", data |-> [tries |-> tries1]])
         /\ messagesHostname' = hostname
         /\ tryCount' = count
         /\ tries' = tries1
         /\ UNCHANGED <<hostnameArg, retries, req, posted, result, aside>>

\* No call of readSetRegistrationTokenHeader on its own.
ReadOff ==
  /\ readPc = "off"
  /\ readHostname = Null
  /\ readHeader = <<>>
  /\ readOutcome = None

\* No concurrent calls.
ConcurrentOff ==
  /\ calls = <<>>
  /\ served = <<>>
  /\ cookieStore = {}

Init ==
  /\ ReadOff
  /\ ConcurrentOff
  /\ clock = 0
  /\ pc = "idle"
  /\ hostnameArg \in Hostnames
  /\ retries \in (0..MaxRetries) \cup {DefaultRetries}
  /\ messagesHostname = hostnameArg
  /\ tryCount = 0
  /\ tries = <<>>
  /\ req = None
  /\ posted = <<>>
  /\ result = None
  /\ error = None

\* The call of registerEndpoint, up to its first suspension point.
registerEndpoint ==
  /\ pc = "idle"
  /\ LoopPass(0, messagesHostname, tries)

\* io.post(req) resolves with res: the rest of the loop pass, and the start
\* of the next one when the response is a redirection.
PostResolves(res) ==
  /\ pc = "await"
  /\ LET tries1 == Append(tries, [req |-> req, res |-> res])
     IN IF IsRateLimited(res)
          THEN Throw(EndpointRegistrationError(
                       [name |-> "LoginRateLimitExceeded", data |-> [tries |-> tries1]]),
                     tries1)
        ELSE IF res.statusCode \notin expectedStatusCode
          THEN Throw(EndpointRegistrationError(
                       UnexpectedHttpStatusError(res, expectedStatusCode, req)),
                     tries1)
        ELSE IF HeaderIsUndefined(res, "location")
          THEN Throw(EndpointRegistrationError(MissingHeaderError(res, "Location", req)),
                     tries1)
        ELSE LET location == parseUri(res.headers["location"])
             IN IF HostIsUndefined(location)
                  THEN Throw([name |-> "ParseError",
                              message |-> "Expected location to define host"],
                             tries1)
                ELSE IF IsRedirection(location, messagesHostname)
                  THEN LoopPass(tryCount + 1, RedirectionHostname(location), tries1)
                ELSE IF HeaderIsUndefined(res, "set-registrationtoken")
                  THEN Throw(EndpointRegistrationError(
                               MissingHeaderError(res, "Set-Registrationtoken", req)),
                             tries1)
                ELSE LET parsed == readSetRegistrationTokenHeader(
                                     messagesHostname, res.headers["set-registrationtoken"])
                     IN IF parsed.ok THEN Return(parsed.token, tries1)
                        ELSE Throw(parsed.error, tries1)

\* io.post(req) rejects: the rejection propagates out of registerEndpoint.
PostRejects ==
  /\ pc = "await"
  /\ Throw([name |-> "RequestError"], tries)

Next ==
  \/ registerEndpoint
  \/ \E res \in Responses : PostResolves(res)
  \/ PostRejects

Spec == Init /\ [][Next]_vars

\* ------------------------------------------------------------------------
\* One invocation against a transport that answers every request
\* ------------------------------------------------------------------------

\* The headers of the responses of the answering transport: none, a Location
\* alone (with and without a host), and a Location with a
\* Set-Registrationtoken header (complete, incomplete, with an empty value).
AnsweredHeaderMaps ==
  { <<>>,
    ("location" :> <<"https", "b", EndpointsPath>>),
    ("location" :> <<EndpointsPath>>),
    ("location" :> <<"https", "a", EndpointsPath>>)
      @@ ("set-registrationtoken" :> HeaderComplete),
    ("location" :> <<"https", "a", EndpointsPath>>)
      @@ ("set-registrationtoken" :> HeaderEmptyValue),
    ("location" :> <<"https", "b", EndpointsPath>>)
      @@ ("set-registrationtoken" :> HeaderNoExpires) }

AnsweredResponses == [statusCode : StatusCodes, headers : AnsweredHeaderMaps]

\* io.post never rejects.
AnsweredNext ==
  \/ registerEndpoint
  \/ \E res \in AnsweredResponses : PostResolves(res)

\* The transport eventually answers the request in flight.
AnsweredSpec ==
  /\ Init
  /\ [][AnsweredNext]_vars
  /\ WF_vars(\E res \in AnsweredResponses : PostResolves(res))

\* ------------------------------------------------------------------------
\* One invocation while the clock advances
\* ------------------------------------------------------------------------

\* A second passes while the call is pending.
Tick ==
  /\ pc \in {"idle", "await"}
  /\ clock < MaxTime
  /\ clock' = clock + 1
  /\ UNCHANGED <<callVars, readVars, concurrentVars>>

\* Responses to a call while the clock runs: a token for host "a", a
\* redirection to host "b" or to host "a", a rate limit, a missing Location.
TimedResponses ==
  { [statusCode |-> 201,
     headers |-> ("location" :> <<"https", "a", EndpointsPath>>)
                   @@ ("set-registrationtoken" :> HeaderComplete)],
    [statusCode |-> 301, headers |-> ("location" :> <<"https", "b", EndpointsPath>>)],
    [statusCode |-> 301, headers |-> ("location" :> <<"https", "a", EndpointsPath>>)],
    [statusCode |-> 429, headers |-> <<>>],
    [statusCode |-> 201, headers |-> <<>>] }

TimedNext ==
  \/ Tick
  \/ registerEndpoint
  \/ \E res \in TimedResponses : PostResolves(res)
  \/ PostRejects

TimedSpec == Init /\ [][TimedNext]_vars

\* ------------------------------------------------------------------------
\* readSetRegistrationTokenHeader on its own, on headers made of up to
\* MaxSegments parameters
\* ------------------------------------------------------------------------

\* The parameters a header is made of: well formed ones, ones with an empty
\* or a non numeric value, one without "=", and the empty one.
ParamSegments ==
  { KeyRegistrationToken \o <<"=", "a", "b", "c">>,
    KeyRegistrationToken \o <<"=">>,
    KeyExpires \o <<"=", "1", "0", "0", "0">>,
    KeyExpires \o <<"=", "1", "2", "x">>,
    KeyExpires \o <<"=", "a", "b", "c">>,
    KeyEndpointId \o <<"=", "{", "e", "1", "}">>,
    KeyEndpointId,
    <<>> }

\* The segments joined by "; ".
RECURSIVE JoinSegments(_)
JoinSegments(segments) ==
  IF segments = <<>> THEN <<>>
  ELSE IF Len(segments) = 1 THEN segments[1]
  ELSE segments[1] \o <<";", " ">> \o JoinSegments(Tail(segments))

\* The headers of up to MaxSegments parameters.
SegmentedHeaders ==
  {JoinSegments(segments) :
     segments \in UNION {[1..n -> ParamSegments] : n \in 0..MaxSegments}}

\* No call of registerEndpoint.
CallOff ==
  /\ pc = "off"
  /\ hostnameArg = Null
  /\ retries = 0
  /\ messagesHostname = Null
  /\ tryCount = 0
  /\ tries = <<>>
  /\ req = None
  /\ posted = <<>>
  /\ result = None
  /\ error = None

ReadInit ==
  /\ CallOff
  /\ ConcurrentOff
  /\ clock = 0
  /\ readPc = "called"
  /\ readHostname \in Hostnames
  /\ readHeader \in SegmentedHeaders
  /\ readOutcome = None

\* The call runs to its end.
ReadHeader ==
  /\ readPc = "called"
  /\ readPc' = "done"
  /\ readOutcome' = readSetRegistrationTokenHeader(readHostname, readHeader)
  /\ UNCHANGED <<readHostname, readHeader, callVars, clock, concurrentVars>>

ReadNext == ReadHeader

ReadSpec == ReadInit /\ [][ReadNext]_vars

\* ------------------------------------------------------------------------
\* Vocabulary of the properties
\* ------------------------------------------------------------------------

Terminated == pc \in {"returned", "thrown"}

\* The hostname a request targets.
TargetHostname(request) == request.uri[2]

\* The attempt has a status of {201, 301} and a Location header.
HasLocation(try) ==
  /\ try.res.statusCode \in {201, 301}
  /\ "location" \in DOMAIN try.res.headers

\* The attempt has a Location header that names a host.
LocationNamesHost(try) ==
  /\ HasLocation(try)
  /\ Len(try.res.headers["location"]) = 3

\* The host of the Location header of an attempt, as url.parse reads it.
LocationHost(try) == parseUri(try.res.headers["location"]).host

\* The attempt is a redirect: its Location header names a host other than
\* the one its request targeted.
IsRedirect(try) ==
  /\ LocationNamesHost(try)
  /\ LocationHost(try) # TargetHostname(try.req)

\* The call failed with the composite error whose cause has the given name.
FailedWith(causeName) ==
  /\ pc = "thrown"
  /\ error.name = "EndpointRegistrationError"
  /\ error.cause.name = causeName

\* ------------------------------------------------------------------------
\* Properties
\* ------------------------------------------------------------------------

\* C1: one invocation sends at most retries + 1 requests, and at least one
\* request by the time it terminates.
C1_RequestCountBounded ==
  /\ Len(posted) <= retries + 1
  /\ pc # "idle" => Len(posted) >= 1

\* C1 witness: with retries = 1 the call ended after its second request.
C1_Witness == retries = 1 /\ Terminated /\ Len(posted) = 2

\* C2: a response with status 429 is the last one: the call has failed as
\* rate limited and no request was sent after the one it answers.
C2_RateLimitIsTerminal ==
  \A i \in 1..Len(tries) :
    tries[i].res.statusCode = 429 =>
      /\ i = Len(tries)
      /\ FailedWith("LoginRateLimitExceeded")
      /\ Len(posted) = i

\* C2 witness: the first response is 429 with retries = 2, and the call has
\* failed after one request.
C2_Witness ==
  /\ retries = 2
  /\ Len(tries) = 1
  /\ tries[1].res.statusCode = 429
  /\ pc = "thrown"
  /\ Len(posted) = 1

\* C3: the first request targets the hostname argument; after a redirect the
\* current hostname is the host of the Location header and the next request,
\* if any, targets the endpoints resource of that host; the redirects that
\* were followed by a request are at most retries, each one having used one
\* unit of the loop counter.
C3_RedirectFollowed ==
  /\ Len(posted) >= 1 => posted[1].uri = endpoints(hostnameArg)
  /\ \A i \in 1..Len(tries) :
       IsRedirect(tries[i]) =>
         /\ i = Len(tries) => messagesHostname = LocationHost(tries[i])
         /\ i < Len(posted) => posted[i + 1].uri = endpoints(LocationHost(tries[i]))
  /\ Cardinality({i \in 1..Len(tries) : IsRedirect(tries[i]) /\ i < Len(posted)}) <= retries
  /\ Cardinality({i \in 1..Len(tries) : IsRedirect(tries[i])}) <= tryCount

\* C3 witness: with retries = 2 the first response is a 301 redirect to host
\* "b", the second request went to "b" and the call returned after 2 attempts.
C3_Witness ==
  /\ retries = 2
  /\ pc = "returned"
  /\ Len(tries) = 2
  /\ tries[1].res.statusCode = 301
  /\ IsRedirect(tries[1])
  /\ LocationHost(tries[1]) = "b"
  /\ posted[2].uri = endpoints("b")
  /\ result.host = "b"

AttachedHistory(e) ==
  IF "data" \notin DOMAIN e THEN <<>>
  ELSE IF "tries" \in DOMAIN e.data THEN e.data.tries
  ELSE IF {"request", "response"} \subseteq DOMAIN e.data
    THEN <<[req |-> e.data.request, res |-> e.data.response]>>
  ELSE <<>>

\* The call was rejected by one of its own failures, not by the transport.
FailedByClassification == pc = "thrown" /\ error.name # "RequestError"

\* C5 (as claimed): the call fails with the redirection limit error if and
\* only if retries + 1 requests were sent and each of the retries + 1
\* responses is a redirect, a status of {201, 301} with a Location host that
\* differs from the hostname the request targeted.
C5_ExhaustedIffAllRedirects ==
  FailedWith("EndpointRedirectionsLimit") <=>
    /\ Len(posted) = retries + 1
    /\ Len(tries) = retries + 1
    /\ \A i \in 1..Len(tries) : IsRedirect(tries[i])

\* C6 (as claimed): every failure of the call is the composite
\* EndpointRegistrationError, whose cause carries the whole attempt history.
C6_FailureCarriesHistory ==
  FailedByClassification =>
    /\ error.name = "EndpointRegistrationError"
    /\ AttachedHistory(error.cause) = tries

\* C7 (as claimed): a response with a status of {201, 301} and a Location
\* header that names no host is the last one: the call has failed, the
\* current hostname is the one the request targeted and no request was sent
\* after it.
C7_HostlessLocationFails ==
  \A i \in 1..Len(tries) :
    (HasLocation(tries[i]) /\ ~LocationNamesHost(tries[i])) =>
      /\ i = Len(tries)
      /\ pc = "thrown"
      /\ messagesHostname = TargetHostname(tries[i].req)
      /\ Len(posted) = i

\* C8: a response with a status other than 429, 201 and 301 is the last one:
\* the call has failed with the unexpected status error, which reports the
\* expected set {201, 301} and the response with its status, and no request
\* was sent after it.
C8_BadStatusIsTerminal ==
  \A i \in 1..Len(tries) :
    tries[i].res.statusCode \notin {429, 201, 301} =>
      /\ i = Len(tries)
      /\ FailedWith("UnexpectedHttpStatus")
      /\ error.cause.data.expected = {201, 301}
      /\ error.cause.data.response = tries[i].res
      /\ Len(posted) = i

\* C8 witness: the call failed on a bad status with budget left.
C8_Witness ==
  /\ FailedWith("UnexpectedHttpStatus")
  /\ tries[Len(tries)].res.statusCode = 200
  /\ tryCount < retries

\* C9: a response with a status of {201, 301} and no Location header is the
\* last one, whether or not it has a Set-Registrationtoken header: the call
\* has failed with the missing header error naming Location, and no request
\* was sent after it.
C9_MissingLocationIsTerminal ==
  \A i \in 1..Len(tries) :
    (tries[i].res.statusCode \in {201, 301} /\ "location" \notin DOMAIN tries[i].res.headers) =>
      /\ i = Len(tries)
      /\ FailedWith("MissingHeader")
      /\ error.cause.data.headerName = "Location"
      /\ Len(posted) = i

\* C9 witness: the call failed on a response that has a Set-Registrationtoken
\* header and no Location header, with budget left.
C9_Witness ==
  /\ FailedWith("MissingHeader")
  /\ error.cause.data.headerName = "Location"
  /\ "set-registrationtoken" \in DOMAIN tries[Len(tries)].res.headers
  /\ tryCount < retries

\* C10: a response with a status of {201, 301}, a Location host equal to the
\* hostname its request targeted and no Set-Registrationtoken header is the
\* last one: the call has failed with the missing header error naming
\* Set-Registrationtoken, and no request was sent after it.
C10_MissingTokenHeaderIsTerminal ==
  \A i \in 1..Len(tries) :
    (/\ HasLocation(tries[i])
     /\ LocationHost(tries[i]) = TargetHostname(tries[i].req)
     /\ "set-registrationtoken" \notin DOMAIN tries[i].res.headers) =>
      /\ i = Len(tries)
      /\ FailedWith("MissingHeader")
      /\ error.cause.data.headerName = "Set-Registrationtoken"
      /\ Len(posted) = i

\* C10 witness: status 201, the Location host is the requested host, there
\* is no Set-Registrationtoken header, and the call failed with budget left.
C10_Witness ==
  /\ FailedWith("MissingHeader")
  /\ error.cause.data.headerName = "Set-Registrationtoken"
  /\ tries[Len(tries)].res.statusCode = 201
  /\ LocationNamesHost(tries[Len(tries)])
  /\ tryCount < retries

\* The keys readSetRegistrationTokenHeader requires.
RequiredKeys == {KeyRegistrationToken, KeyExpires, KeyEndpointId}

\* C11: the token parser throws InvalidSetRegistrationTokenHeader exactly
\* when one of the keys registrationToken, expires, endpointId is absent
\* from the parsed header; otherwise the token has the value of
\* registrationToken, the value of endpointId and the header itself as its
\* value, endpointId and raw fields.
C11_ParserFailsIffKeyAbsent ==
  readPc = "done" =>
    LET parsedHeader == parseHeaderParams(readHeader)
    IN /\ (~readOutcome.ok) <=> (\E key \in RequiredKeys : key \notin DOMAIN parsedHeader)
       /\ ~readOutcome.ok => readOutcome.error.name = "InvalidSetRegistrationTokenHeader"
       /\ readOutcome.ok =>
            /\ readOutcome.token.value = parsedHeader[KeyRegistrationToken]
            /\ readOutcome.token.endpointId = parsedHeader[KeyEndpointId]
            /\ readOutcome.token.raw = readHeader

\* C11 witness: the three keys are present, registrationToken with the
\* empty string as its value, and the parser returned a token.
C11_Witness ==
  /\ readPc = "done"
  /\ readOutcome.ok
  /\ readOutcome.token.value = <<>>
  /\ readOutcome.token.raw = readHeader

\* C12 (as claimed): a returned token has a non-empty value, a non-empty
\* endpointId, and as expiration date the instant 1000 * expires
\* milliseconds after the epoch, expires being the number of the header.
C12_TokenWellFormed ==
  pc = "returned" =>
    LET expires == parseInt(parseHeaderParams(result.raw)[KeyExpires])
    IN /\ result.value # <<>>
       /\ result.endpointId # <<>>
       /\ ~expires.nan
       /\ result.expirationDate = [valid |-> TRUE, ms |-> 1000 * expires.n]

\* The classification of a thrown value: the name of the cause of the
\* composite error, or the name of a value thrown as it is.
Classification(e) ==
  IF e.name = "EndpointRegistrationError"
    THEN (IF "cause" \in DOMAIN e THEN e.cause.name ELSE "unclassified")
    ELSE e.name

\* The classifications of the failures of registerEndpoint.
ClassifiedFailures ==
  {"LoginRateLimitExceeded", "UnexpectedHttpStatus", "MissingHeader", "ParseError",
   "InvalidSetRegistrationTokenHeader", "EndpointRedirectionsLimit"}

\* The call ended with a token and no error, or with one classified error
\* and no token; every request it sent was answered and recorded.
OneClassifiedOutcome ==
  /\ \/ pc = "returned" /\ result # None /\ error = None
     \/ /\ pc = "thrown"
        /\ result = None
        /\ error # None
        /\ Classification(error) \in ClassifiedFailures
  /\ Len(tries) = Len(posted)

\* C13: when the transport answers every request, a call in flight
\* eventually ends, and a call that has ended has exactly one outcome, a
\* token or one of the classified failures.
C13_TerminatesClassified ==
  /\ (pc = "await") ~> Terminated
  /\ [](Terminated => OneClassifiedOutcome)

\* C13 witness: with retries = 2 the call ended on the redirection limit
\* after three answered requests.
C13_Witness ==
  /\ retries = 2
  /\ Len(tries) = 3
  /\ pc = "thrown"
  /\ Classification(error) = "EndpointRedirectionsLimit"

\* The attempt was taken for a redirection: a status of {201, 301} and a
\* Location header whose host, as url.parse reads it (null included), is not
\* the hostname the request targeted.
TakenForRedirection(try) ==
  /\ HasLocation(try)
  /\ LocationHost(try) # TargetHostname(try.req)

\* The requests passed to io.post that are neither answered nor rejected.
InFlight ==
  Len(posted) - Len(tries) - (IF pc = "thrown" /\ error.name = "RequestError" THEN 1 ELSE 0)

\* C14: at most one request is in flight, exactly while the call is
\* suspended in io.post, and every request but the last one sent has been
\* answered by a response that was taken for a redirection.
C14_RequestsSequential ==
  /\ InFlight \in {0, 1}
  /\ InFlight = 1 <=> pc = "await"
  /\ \A k \in 1..(Len(posted) - 1) :
       /\ k <= Len(tries)
       /\ tries[k].req = posted[k]
       /\ TakenForRedirection(tries[k])

\* C14 witness: the third request is in flight after two recorded answers.
C14_Witness ==
  /\ pc = "await"
  /\ Len(posted) = 3
  /\ Len(tries) = 2
  /\ InFlight = 1

\* ------------------------------------------------------------------------
\* Concurrent invocations.  The locals of a call (its parameters, tryCount,
\* tries, req) make a frame; a step of a call maps its frame to a frame.
\* ------------------------------------------------------------------------

\* The frame of a call that has not started.
NewFrame(hostname, budget) ==
  [pc |-> "idle", hostnameArg |-> hostname, retries |-> budget,
   messagesHostname |-> hostname, tryCount |-> 0, tries |-> <<>>, req |-> None,
   posted |-> <<>>, result |-> None, error |-> None]

\* The frame made of the variables of the single call.
Frame ==
  [pc |-> pc, hostnameArg |-> hostnameArg, retries |-> retries,
   messagesHostname |-> messagesHostname, tryCount |-> tryCount, tries |-> tries,
   req |-> req, posted |-> posted, result |-> result, error |-> error]

FrameThrow(f, e, tries1) == [f EXCEPT !.pc = "thrown", !.error = e, !.tries = tries1]

FrameReturn(f, token, tries1) ==
  [f EXCEPT !.pc = "returned", !.result = token, !.tries = tries1]

\* LoopPass on a frame.
FrameLoopPass(f, count, hostname, tries1) ==
  IF LoopCondition(count, f.retries)
    THEN [f EXCEPT !.pc = "await",
                   !.req = BuildRequest(hostname),
                   !.posted = Append(f.posted, BuildRequest(hostname)),
                   !.messagesHostname = hostname,
                   !.tryCount = count,
                   !.tries = tries1]
    ELSE [f EXCEPT !.pc = "thrown",
                   !.error = EndpointRegistrationError(
                               [name |-> "EndpointRedirectionsLimit",
                                data |-> [tries |-> tries1]]),
                   !.messagesHostname = hostname,
                   !.tryCount = count,
                   !.tries = tries1]

\* registerEndpoint on a frame.
FrameCall(f) == FrameLoopPass(f, 0, f.messagesHostname, f.tries)

\* PostResolves on a frame.
FrameResolve(f, res) ==
  LET tries1 == Append(f.tries, [req |-> f.req, res |-> res])
  IN IF IsRateLimited(res)
       THEN FrameThrow(f, EndpointRegistrationError(
                            [name |-> "LoginRateLimitExceeded", data |-> [tries |-> tries1]]),
                       tries1)
     ELSE IF res.statusCode \notin expectedStatusCode
       THEN FrameThrow(f, EndpointRegistrationError(
                            UnexpectedHttpStatusError(res, expectedStatusCode, f.req)),
                       tries1)
     ELSE IF HeaderIsUndefined(res, "location")
       THEN FrameThrow(f, EndpointRegistrationError(MissingHeaderError(res, "Location", f.req)),
                       tries1)
     ELSE LET location == parseUri(res.headers["location"])
          IN IF HostIsUndefined(location)
               THEN FrameThrow(f, [name |-> "ParseError",
                                   message |-> "Expected location to define host"],
                               tries1)
             ELSE IF IsRedirection(location, f.messagesHostname)
               THEN FrameLoopPass(f, f.tryCount + 1, location.host, tries1)
             ELSE IF HeaderIsUndefined(res, "set-registrationtoken")
               THEN FrameThrow(f, EndpointRegistrationError(
                                    MissingHeaderError(res, "Set-Registrationtoken", f.req)),
                               tries1)
             ELSE LET parsed == readSetRegistrationTokenHeader(
                                  f.messagesHostname, res.headers["set-registrationtoken"])
                  IN IF parsed.ok THEN FrameReturn(f, parsed.token, tries1)
                     ELSE FrameThrow(f, parsed.error, tries1)

\* PostRejects on a frame.
FrameReject(f) == FrameThrow(f, [name |-> "RequestError"], f.tries)

\* Every step of the single call is the step of its frame.
FrameStepsAgree ==
  [][\/ pc = "idle" /\ Frame' = FrameCall(Frame)
     \/ pc = "await" /\ Frame' = FrameReject(Frame)
     \/ pc = "await" /\ \E res \in Responses \cup AnsweredResponses \cup TimedResponses : Frame' = FrameResolve(Frame, res)
     \/ Frame' = Frame]_vars

\* The concurrent calls.
Invocations == {1, 2}

\* Hostnames the concurrent calls are made with.
ConcurrentHostnames == {"a", "b"}

\* Responses to the concurrent calls: a token for host "a", a token for host
\* "b", a rate limit, a Location without host.
ConcurrentResponses ==
  { [statusCode |-> 201,
     headers |-> ("location" :> <<"https", "a", EndpointsPath>>)
                   @@ ("set-registrationtoken" :> HeaderComplete)],
    [statusCode |-> 301,
     headers |-> ("location" :> <<"https", "b", EndpointsPath>>)
                   @@ ("set-registrationtoken" :> HeaderComplete)],
    [statusCode |-> 429, headers |-> <<>>],
    [statusCode |-> 201, headers |-> ("location" :> <<EndpointsPath>>)] }

ConcurrentInit ==
  /\ CallOff
  /\ ReadOff
  /\ clock = 0
  /\ calls \in [Invocations -> {NewFrame(h, r) : h \in ConcurrentHostnames, r \in 0..MaxRetries}]
  /\ served = [i \in Invocations |-> <<>>]
  /\ cookieStore = {}

\* The hostname call i reads from a variable shared by the calls, which the
\* first call owns.
HostnameSeenByShared(i) == calls[1].messagesHostname

\* The hostname call i reads: its own parameter messagesHostname.
HostnameSeenBy(i) == calls[i].messagesHostname

\* The frame call i runs its next step on.
FrameSeenBy(i) == [calls[i] EXCEPT !.messagesHostname = HostnameSeenBy(i)]

\* Call i of registerEndpoint, up to its first suspension point.
ConcurrentCall(i) ==
  /\ calls[i].pc = "idle"
  /\ calls' = [calls EXCEPT ![i] = FrameCall(FrameSeenBy(i))]
  /\ served' = [served EXCEPT ![i] = Append(@, [kind |-> "call"])]
  /\ UNCHANGED <<cookieStore, callVars, readVars, clock>>

\* The io.post of call i resolves with res; the transport has stored a
\* cookie of the host it answered for.
ConcurrentResolves(i, res) ==
  /\ calls[i].pc = "await"
  /\ calls' = [calls EXCEPT ![i] = FrameResolve(FrameSeenBy(i), res)]
  /\ served' = [served EXCEPT ![i] = Append(@, [kind |-> "resolved", res |-> res])]
  /\ cookieStore' = cookieStore \cup {TargetHostname(calls[i].req)}
  /\ UNCHANGED <<callVars, readVars, clock>>

\* The io.post of call i rejects.
ConcurrentRejects(i) ==
  /\ calls[i].pc = "await"
  /\ calls' = [calls EXCEPT ![i] = FrameReject(FrameSeenBy(i))]
  /\ served' = [served EXCEPT ![i] = Append(@, [kind |-> "rejected"])]
  /\ UNCHANGED <<cookieStore, callVars, readVars, clock>>

ConcurrentNext ==
  \E i \in Invocations :
    \/ ConcurrentCall(i)
    \/ \E res \in ConcurrentResponses : ConcurrentResolves(i, res)
    \/ ConcurrentRejects(i)

ConcurrentSpec == ConcurrentInit /\ [][ConcurrentNext]_vars

\* The frame a call reaches by taking the given steps on its own.
RECURSIVE RunAlone(_, _)
RunAlone(f, steps) ==
  IF steps = <<>> THEN f
  ELSE RunAlone(CASE Head(steps).kind = "call" -> FrameCall(f)
                  [] Head(steps).kind = "resolved" -> FrameResolve(f, Head(steps).res)
                  [] Head(steps).kind = "rejected" -> FrameReject(f),
                Tail(steps))

Rejected == pc = "thrown" /\ error.name = "RequestError"

\* The last entry of the history.
LastTry == tries[Len(tries)]

\* The history in a state: one entry per answered request, in send order,
\* and the outcome of a classification is that of the last entry.
HistoryRecordsAnswers ==
  /\ Len(tries) = Len(posted) - (IF pc = "await" \/ Rejected THEN 1 ELSE 0)
  /\ \A k \in 1..Len(tries) : tries[k].req = posted[k]
  /\ (Terminated /\ ~Rejected) =>
       /\ Len(tries) = Len(posted)
       /\ LastTry.req = req
       /\ FailedWith("LoginRateLimitExceeded") => LastTry.res.statusCode = 429
       /\ (FailedWith("UnexpectedHttpStatus") \/ FailedWith("MissingHeader")) =>
            error.cause.data.response = LastTry.res
       /\ pc = "returned" => result.raw = LastTry.res.headers["set-registrationtoken"]

\* The history over a step: a response appends the pair of the request that
\* was in flight and leaves the earlier entries as they were, whatever the
\* outcome; no other step changes the history.
HistoryGrowsByAppend ==
  /\ SubSeq(tries', 1, Len(tries)) = tries
  /\ (pc = "await" /\ ~Rejected') =>
       /\ Len(tries') = Len(tries) + 1
       /\ Len(tries') = Len(posted)
       /\ tries'[Len(tries')].req = req
  /\ (pc # "await" \/ Rejected') => tries' = tries

\* C16: every (request, response) pair is appended to the history when the
\* response is received, whatever its classification: after each response
\* the history has one entry per request sent, in send order, its last entry
\* is the response that was classified, and entries are never removed or
\* reordered.
C16_HistoryAppendOnly == [](HistoryRecordsAnswers) /\ [][HistoryGrowsByAppend]_vars

\* C16 witness: the call failed on the status of its second response, with
\* both pairs in the history in send order.
C16_Witness ==
  /\ FailedWith("UnexpectedHttpStatus")
  /\ Len(tries) = 2
  /\ tries[1].req = posted[1] /\ tries[2].req = posted[2]
  /\ posted[1] # posted[2]
  /\ error.cause.data.response = tries[2].res

\* The time field of the LockAndKey header of a request.
TimeOf(request) == parseInt(parseHeaderParams(request.headers.LockAndKey)[KeyTime]).n

\* The parts of a request that do not depend on the attempt.
FixedPart(request) ==
  <<request.headers.ClientInfo, request.headers.Authentication,
    request.headers.BehaviorOverride, request.body>>

\* The requests sent so far: times in send order never decrease, and the
\* client-info, authentication and override headers and the body are the
\* same in all of them.
AttemptsDifferOnlyInTime ==
  \A j \in 1..Len(posted) : \A k \in j..Len(posted) :
    /\ TimeOf(posted[j]) <= TimeOf(posted[k])
    /\ FixedPart(posted[j]) = FixedPart(posted[k])

\* A step that sends a request: the request is built in that step, with the
\* challenge of the clock reading of that step.
RequestBuiltAtClock ==
  Len(posted') > Len(posted) =>
    /\ posted'[Len(posted')] = req'
    /\ TimeOf(req') = clock
    /\ req'.headers.LockAndKey = getLockAndKeyHeader(clock)

\* C17: with a clock that advances while the call is pending, the LockAndKey
\* header of each attempt carries the clock reading at the time the attempt
\* is built, never older than that of the attempt before, and the
\* client-info, authentication and override headers and the body are the
\* same in every attempt.
C17_FreshTimePerAttempt == [](AttemptsDifferOnlyInTime) /\ [][RequestBuiltAtClock]_vars

\* C17 witness: the clock advanced between the first and the second attempt
\* and the second request carries the later time.
C17_Witness ==
  /\ Len(posted) = 2
  /\ TimeOf(posted[1]) < TimeOf(posted[2])
  /\ TimeOf(posted[2]) = clock
  /\ FixedPart(posted[1]) = FixedPart(posted[2])

\* The first n entries of the history are redirects.
FirstAreRedirects(n) ==
  /\ n <= Len(tries)
  /\ \A k \in 1..n : IsRedirect(tries[k])

\* The attempt is conclusive: its status is 201 or 301, its Location names
\* the host its request targeted, and its Set-Registrationtoken header has
\* the three required keys.
IsConclusive(try) ==
  /\ LocationNamesHost(try)
  /\ LocationHost(try) = TargetHostname(try.req)
  /\ "set-registrationtoken" \in DOMAIN try.res.headers
  /\ RequiredKeys \subseteq DOMAIN parseHeaderParams(try.res.headers["set-registrationtoken"])

\* C18: the retry budget is inclusive.  After `retries` redirects the call
\* has sent request number retries + 1 and waits for its answer; when that
\* answer is conclusive the call returns a token after exactly retries + 1
\* requests and does not fail with the redirection limit.
C18_BudgetInclusive ==
  /\ (pc # "idle" /\ Len(tries) = retries /\ FirstAreRedirects(retries)) =>
       /\ pc = "await" \/ Rejected
       /\ Len(posted) = retries + 1
  /\ (Len(tries) = retries + 1 /\ FirstAreRedirects(retries) /\ IsConclusive(LastTry)) =>
       /\ pc = "returned"
       /\ result.host = TargetHostname(LastTry.req)
       /\ Len(posted) = retries + 1

\* C18 witness: a call with a positive budget used all of it on redirects
\* and returned the token of the last request the budget allows.
C18_Witness ==
  /\ retries > 0
  /\ Len(tries) = retries + 1
  /\ FirstAreRedirects(retries)
  /\ IsConclusive(LastTry)
  /\ pc = "returned"

\* The first check of the classification that applies to an attempt, in the
\* order rate limit, status, Location present, Location names a host,
\* redirect, Set-Registrationtoken present, token.
FirstCheck(try) ==
  IF try.res.statusCode = 429 THEN "rateLimit"
  ELSE IF try.res.statusCode \notin {201, 301} THEN "status"
  ELSE IF "location" \notin DOMAIN try.res.headers THEN "location"
  ELSE IF ~LocationNamesHost(try) THEN "host"
  ELSE IF LocationHost(try) # TargetHostname(try.req) THEN "redirect"
  ELSE IF "set-registrationtoken" \notin DOMAIN try.res.headers THEN "tokenHeader"
  ELSE "token"

\* The outcome of the call is the one the given check gives.
OutcomeOf(check) ==
  CASE check = "rateLimit" -> FailedWith("LoginRateLimitExceeded")
    [] check = "status" -> FailedWith("UnexpectedHttpStatus")
    [] check = "location" ->
         FailedWith("MissingHeader") /\ error.cause.data.headerName = "Location"
    [] check = "host" -> pc = "thrown" /\ error.name = "ParseError"
    [] check = "redirect" -> FailedWith("EndpointRedirectionsLimit")
    [] check = "tokenHeader" ->
         FailedWith("MissingHeader") /\ error.cause.data.headerName = "Set-Registrationtoken"
    [] check = "token" ->
         pc = "returned" \/ (pc = "thrown" /\ error.name = "InvalidSetRegistrationTokenHeader")

\* Attempt k of the history was classified by the first check that applies
\* to it: a request was sent after it exactly when that check is the
\* redirect decision, and otherwise the outcome is the one of that check.
ClassifiedByFirstCheck(k) ==
  /\ k < Len(posted) => FirstCheck(tries[k]) = "redirect"
  /\ k = Len(posted) => OutcomeOf(FirstCheck(tries[k]))

\* C19 (as claimed): every response is classified by the first check that
\* applies, in the order 429, status, Location checks, redirect decision,
\* Set-Registrationtoken; a bad status gives neither token nor redirect
\* whatever its headers, a redirecting response gives neither token nor
\* missing token header failure.
C19_ClassifiedInOrder ==
  \A k \in 1..Len(tries) : ClassifiedByFirstCheck(k)

\* The precedence on the histories in which every Location names a host.
ClassifiedInOrderWhenHostNamed ==
  (\A k \in 1..Len(tries) : HasLocation(tries[k]) => LocationNamesHost(tries[k])) =>
    \A k \in 1..Len(tries) : ClassifiedByFirstCheck(k)

====
